---- MODULE Spec2Model ----
(***************************************************************************)
(* A model of the jup_swap native library: the quick_swap pipeline         *)
(* (lib.rs) and the Jupiter API client it uses (jup_ag.rs).                *)
(*                                                                         *)
(* JSON bodies are tagged records [t, v]; Rust's Result and Option are     *)
(* records with an ok / some flag.  Library parsers whose code is outside  *)
(* the repository (base58 address parsing, base64, bincode, ed25519 key    *)
(* validation) are finite tables over the texts the model draws from.      *)
(***************************************************************************)
EXTENDS Integers, Sequences, FiniteSets, TLC

VARIABLES
    apiBody, apiType, apiResult, apiDone,      \* maybe_jupiter_api_error applied to one body
    swcResponse, swcRequest, swcResult, swcPc, \* one call of swap_with_config
    INIT, RUNTIME,                             \* the statics of lib.rs
    rtPc, rtSeen, rtBuilt,                     \* the callers of get_runtime
    pc, args, outcome,                         \* one invocation of quick_swap
    settings,                                  \* the settings as read; HELIUS_API_KEY as it was set
    quoteRequests, swapRequests, submissions,  \* the requests sent, in order
    fromResult, swapResult,                    \* from_result and swap_response
    keyValue, keypair, ephemeralKeys,          \* the key variable as read, and the keypair
    ixSelf, ixResult, ixDone,                  \* into_instruction applied to one descriptor
    urlArgs, urlResult, urlDone                \* quote_url applied to one argument list

apiVars == <<apiBody, apiType, apiResult, apiDone>>
swcVars == <<swcResponse, swcRequest, swcResult, swcPc>>
rtVars == <<INIT, RUNTIME, rtPc, rtSeen, rtBuilt>>
pipeVars == <<pc, args, outcome, settings, quoteRequests, swapRequests, submissions,
              fromResult, swapResult, keyValue, keypair, ephemeralKeys>>
ixVars == <<ixSelf, ixResult, ixDone>>
urlVars == <<urlArgs, urlResult, urlDone>>
vars == <<apiVars, swcVars, rtVars, pipeVars, ixVars, urlVars>>

-----------------------------------------------------------------------------
(* Rust's Result and Option *)

Ok(v) == [ok |-> TRUE, val |-> v]
Err(kind, msg) == [ok |-> FALSE, err |-> kind, msg |-> msg]
None == [some |-> FALSE]
Some(v) == [some |-> TRUE, val |-> v]

(* serde_json::Value *)

EmptyMap == [k \in {} |-> 0]
JVal(tag, str, num, bool, arr, obj) ==
    [t |-> tag, s |-> str, n |-> num, b |-> bool, a |-> arr, o |-> obj]
JNull == JVal("null", "", 0, FALSE, <<>>, EmptyMap)
JBool(b) == JVal("bool", "", 0, b, <<>>, EmptyMap)
JNum(n) == JVal("num", "", n, FALSE, <<>>, EmptyMap)
JFloat(n) == JVal("float", "", n, FALSE, <<>>, EmptyMap)
JStr(s) == JVal("str", s, 0, FALSE, <<>>, EmptyMap)
JArr(a) == JVal("arr", "", 0, FALSE, a, EmptyMap)
JObj(o) == JVal("obj", "", 0, FALSE, <<>>, o)

With(o, k, val) == [x \in (DOMAIN o) \cup {k} |-> IF x = k THEN val ELSE o[x]]
Without(o, k) == [x \in (DOMAIN o) \ {k} |-> o[x]]

-----------------------------------------------------------------------------
(* Texts the library parsers are tabulated on *)

MintA == "So11111111111111111111111111111111111111112"
MintB == "EPjFWdd5AufqSSqeM2qN1xzybapC8G4wEGGkZwyTDt1v"
ProgSetup == "ATokenGPvbdGVxr1b2hvZbsiqW5xWH25efTNsLJA8knL"
ProgSwap == "JUP6LkbZbjS1jKKwapdHNy74zcZ3tLUZoi5QNyVTaV4"
ProgClose == "TokenkegQfeZyiNwAJbNbGKPFXCWuBvf9Ss623VQ5DA"
BadAddress == "not-a-pubkey"

\* Pubkey::from_str accepts exactly the base58 texts of 32 bytes
ValidPubkeys == {MintA, MintB, ProgSetup, ProgSwap, ProgClose}

ParsePubkey(s) ==
    IF s \in ValidPubkeys THEN Ok(s) ELSE Err("ParsePubkey", s)

\* base64::decode, on the payload texts of the model
Base64Table ==
    ("AQ==" :> <<1>>) @@ ("AgM=" :> <<2, 3>>) @@ ("BAUG" :> <<4, 5, 6>>) @@ ("Bw==" :> <<7>>)

NotBase64 == "not-valid-base64!"

base64_decode(s) ==
    IF s \in DOMAIN Base64Table THEN Ok(Base64Table[s]) ELSE Err("Base64Decode", s)

\* bincode::deserialize::<VersionedTransaction>, on the byte strings of the model
BincodeTable ==
    [b \in {<<1>>, <<2, 3>>, <<4, 5, 6>>} |->
        IF b = <<1>> THEN "txSetup" ELSE IF b = <<2, 3>> THEN "txSwap" ELSE "txCleanup"]

bincode_deserialize(bytes) ==
    IF bytes \in DOMAIN BincodeTable THEN Ok(BincodeTable[bytes]) ELSE Err("Bincode", "")

decode(base64_transaction) ==
    LET raw == base64_decode(base64_transaction)
    IN  IF ~raw.ok THEN raw ELSE bincode_deserialize(raw.val)

-----------------------------------------------------------------------------
(* The serde shapes of jup_ag.rs: each field is                            *)
(* <<rust name, JSON key, type, has #[serde(default)]>>                    *)

TStr == <<"String">>
TU64 == <<"u64">>
TU32 == <<"u32">>
TBool == <<"bool">>
TPubkey == <<"Pubkey">>
TValue == <<"Value">>
TOpt(ty) == <<"Option", ty>>
TVec(ty) == <<"Vec", ty>>
TStruct(name) == <<"Struct", name>>

ErrorResponse ==
    << <<"error", "error", TStr, FALSE>> >>

Quote ==
    << <<"in_amount", "inAmount", TStr, FALSE>>,
       <<"out_amount", "outAmount", TStr, FALSE>>,
       <<"input_mint", "inputMint", TPubkey, FALSE>>,
       <<"output_mint", "outputMint", TPubkey, FALSE>>,
       <<"slippage_bps", "slippageBps", TU64, FALSE>>,
       <<"price_impact_pct", "priceImpactPct", TStr, FALSE>>,
       <<"route_plan", "routePlan", TVec(TStruct("RoutePlan")), FALSE>>,
       <<"other_amount_threshold", "otherAmountThreshold", TStr, FALSE>>,
       <<"swap_mode", "swapMode", TStr, FALSE>> >>

RoutePlan ==
    << <<"swap_info", "swapInfo", TStruct("SwapInfo"), FALSE>>,
       <<"percent", "percent", TU64, FALSE>> >>

SwapInfo ==
    << <<"amm_key", "ammKey", TPubkey, FALSE>>,
       <<"label", "label", TStr, FALSE>>,
       <<"input_mint", "inputMint", TPubkey, FALSE>>,
       <<"output_mint", "outputMint", TPubkey, FALSE>>,
       <<"in_amount", "inAmount", TStr, FALSE>>,
       <<"out_amount", "outAmount", TStr, FALSE>>,
       <<"fee_amount", "feeAmount", TStr, FALSE>>,
       <<"fee_mint", "feeMint", TPubkey, FALSE>> >>

SwapResponse ==
    << <<"setup_transaction", "setupTransaction", TOpt(TStr), FALSE>>,
       <<"swap_transaction", "swapTransaction", TStr, FALSE>>,
       <<"cleanup_transaction", "cleanupTransaction", TOpt(TStr), FALSE>> >>

JupiterAccount ==
    << <<"pubkey", "pubkey", TStr, FALSE>>,
       <<"is_signer", "isSigner", TBool, FALSE>>,
       <<"is_writable", "isWritable", TBool, FALSE>> >>

JupiterInstruction ==
    << <<"program_id", "programId", TStr, FALSE>>,
       <<"accounts", "accounts", TVec(TStruct("JupiterAccount")), FALSE>>,
       <<"data", "data", TStr, FALSE>> >>

ComputeBudget ==
    << <<"estimated_micro_lamports", "estimatedMicroLamports", TU64, FALSE>>,
       <<"micro_lamports", "microLamports", TU64, FALSE>> >>

PrioritizationType ==
    << <<"compute_budget", "computeBudget", TStruct("ComputeBudget"), FALSE>> >>

SwapInstructions ==
    << <<"token_ledger_instruction", "tokenLedgerInstruction",
            TOpt(TStruct("JupiterInstruction")), FALSE>>,
       <<"compute_budget_instructions", "computeBudgetInstructions",
            TVec(TStruct("JupiterInstruction")), FALSE>>,
       <<"setup_instructions", "setupInstructions",
            TVec(TStruct("JupiterInstruction")), FALSE>>,
       <<"swap_instruction", "swapInstruction", TStruct("JupiterInstruction"), FALSE>>,
       <<"cleanup_instruction", "cleanupInstruction",
            TOpt(TStruct("JupiterInstruction")), FALSE>>,
       <<"address_lookup_table_addresses", "addressLookupTableAddresses",
            TVec(TStr), FALSE>>,
       <<"compute_unit_limit", "computeUnitLimit", TU32, FALSE>>,
       <<"dynamic_slippage_report", "dynamicSlippageReport", TOpt(TValue), FALSE>>,
       <<"other_instructions", "otherInstructions",
            TVec(TStruct("JupiterInstruction")), FALSE>>,
       <<"prioritization_fee_lamports", "prioritizationFeeLamports", TU64, FALSE>>,
       <<"prioritization_type", "prioritizationType",
            TStruct("PrioritizationType"), FALSE>>,
       <<"simulation_error", "simulationError", TOpt(TStr), FALSE>>,
       <<"simulation_slot", "simulationSlot", TOpt(TU64), FALSE>>,
       <<"program_id", "programId", TStr, TRUE>>,
       <<"data", "data", TStr, TRUE>> >>

Schema(name) ==
    CASE name = "ErrorResponse" -> ErrorResponse
      [] name = "Quote" -> Quote
      [] name = "RoutePlan" -> RoutePlan
      [] name = "SwapInfo" -> SwapInfo
      [] name = "SwapResponse" -> SwapResponse
      [] name = "JupiterAccount" -> JupiterAccount
      [] name = "JupiterInstruction" -> JupiterInstruction
      [] name = "ComputeBudget" -> ComputeBudget
      [] name = "PrioritizationType" -> PrioritizationType
      [] name = "SwapInstructions" -> SwapInstructions

RustNames(schema) == {schema[i][1] : i \in 1..Len(schema)}
FieldOf(schema, rust) == CHOOSE i \in 1..Len(schema) : schema[i][1] = rust

SerdeErr == Err("SerdeJson", "")

\* serde_json::from_value::<ty>(j): a derived struct reads an object by key
\* (unknown keys skipped, an absent Option is None, an absent default field is
\* its default) or an array by position (which must hold no more elements
\* than the struct has fields)
RECURSIVE FromValue(_, _)
FromValue(ty, j) ==
    CASE ty[1] = "String" ->
            IF j.t = "str" THEN Ok(j.s) ELSE SerdeErr
      [] ty[1] \in {"u64", "u32"} ->
            IF j.t = "num" /\ j.n >= 0 THEN Ok(j.n) ELSE SerdeErr
      [] ty[1] = "bool" ->
            IF j.t = "bool" THEN Ok(j.b) ELSE SerdeErr
      [] ty[1] = "Pubkey" ->
            IF j.t = "str" /\ ParsePubkey(j.s).ok THEN Ok(j.s) ELSE SerdeErr
      [] ty[1] = "Value" -> Ok(j)
      [] ty[1] = "Option" ->
            IF j.t = "null" THEN Ok(None)
            ELSE LET r == FromValue(ty[2], j)
                 IN  IF r.ok THEN Ok(Some(r.val)) ELSE r
      [] ty[1] = "Vec" ->
            IF j.t # "arr" THEN SerdeErr
            ELSE LET rs == [i \in 1..Len(j.a) |-> FromValue(ty[2], j.a[i])]
                 IN  IF \E i \in 1..Len(rs) : ~rs[i].ok THEN SerdeErr
                     ELSE Ok([i \in 1..Len(rs) |-> rs[i].val])
      [] ty[1] = "Struct" ->
            LET schema == Schema(ty[2])
                Absent(f) ==
                    IF f[3][1] = "Option" THEN Ok(None)
                    ELSE IF f[4] THEN Ok("")
                    ELSE SerdeErr
                ByKey(f) ==
                    IF f[2] \in DOMAIN j.o THEN FromValue(f[3], j.o[f[2]]) ELSE Absent(f)
                ByPos(i) ==
                    IF i <= Len(j.a) THEN FromValue(schema[i][3], j.a[i])
                    ELSE IF schema[i][4] THEN Ok("")
                    ELSE SerdeErr
                rs == [n \in RustNames(schema) |->
                          IF j.t = "obj" THEN ByKey(schema[FieldOf(schema, n)])
                          ELSE ByPos(FieldOf(schema, n))]
            IN  IF j.t \notin {"obj", "arr"} THEN SerdeErr
                ELSE IF j.t = "arr" /\ Len(j.a) > Len(schema) THEN SerdeErr
                ELSE IF \E n \in DOMAIN rs : ~rs[n].ok THEN SerdeErr
                ELSE Ok([n \in DOMAIN rs |-> rs[n].val])

\* the expected shape decoded before the error shape is probed
maybe_jupiter_api_error_decode_first(T, value) ==
    LET parsed == FromValue(TStruct(T), value)
        probe == FromValue(TStruct("ErrorResponse"), value)
    IN  IF parsed.ok THEN parsed
        ELSE IF probe.ok THEN Err("JupiterApi", probe.val.error)
        ELSE parsed

\* jup_ag::maybe_jupiter_api_error::<T>(value)
maybe_jupiter_api_error(T, value) ==
    LET probe == FromValue(TStruct("ErrorResponse"), value)
    IN  IF probe.ok THEN Err("JupiterApi", probe.val.error)
        ELSE FromValue(TStruct(T), value)

-----------------------------------------------------------------------------
(* JSON bodies the remote service may answer with *)

HopJson(label) ==
    JObj([swapInfo |-> JObj([ammKey |-> JStr(ProgSwap), label |-> JStr(label),
                             inputMint |-> JStr(MintA), outputMint |-> JStr(MintB),
                             inAmount |-> JStr("1000"), outAmount |-> JStr("990"),
                             feeAmount |-> JStr("3"), feeMint |-> JStr(MintA)]),
          percent |-> JNum(100)])

Hops == <<HopJson("Raydium"), HopJson("Orca"), HopJson("Meteora")>>

QuoteJson(nHops, mode) ==
    JObj([inAmount |-> JStr("1000"), outAmount |-> JStr("990"),
          inputMint |-> JStr(MintA), outputMint |-> JStr(MintB),
          slippageBps |-> JNum(50), priceImpactPct |-> JStr("0.01"),
          routePlan |-> JArr(SubSeq(Hops, 1, nHops)),
          otherAmountThreshold |-> JStr("985"), swapMode |-> JStr(mode)])

AccountJson(pubkey, signer, writable) ==
    JObj([pubkey |-> JStr(pubkey), isSigner |-> JBool(signer), isWritable |-> JBool(writable)])

InstructionJson(program, accounts, data) ==
    JObj([programId |-> JStr(program), accounts |-> JArr(accounts), data |-> JStr(data)])

SetupJson == InstructionJson(ProgSetup, <<AccountJson(MintA, TRUE, TRUE)>>, "AQ==")
SetupJson2 == InstructionJson(ProgClose, <<AccountJson(MintB, FALSE, TRUE)>>, "Bw==")
SwapJson ==
    InstructionJson(ProgSwap,
        <<AccountJson(MintA, TRUE, TRUE), AccountJson(MintB, FALSE, FALSE)>>, "AgM=")
CleanupJson == InstructionJson(ProgClose, <<AccountJson(MintA, TRUE, FALSE)>>, "BAUG")
BudgetJson == InstructionJson(MintB, <<>>, "AQ==")
LedgerJson == InstructionJson(MintA, <<>>, "Bw==")
OtherJson == InstructionJson(MintB, <<AccountJson(MintB, TRUE, TRUE)>>, "AgM=")
BadProgramJson == InstructionJson(BadAddress, <<>>, "AQ==")
BadAccountJson == InstructionJson(ProgSetup, <<AccountJson(BadAddress, FALSE, FALSE)>>, "AQ==")
BadDataJson == InstructionJson(ProgSetup, <<>>, NotBase64)

SwapInstructionsJson(setups, swapIx, cleanup, simulationError) ==
    JObj([tokenLedgerInstruction |-> JNull,
          computeBudgetInstructions |-> JArr(<<BudgetJson>>),
          setupInstructions |-> JArr(setups),
          swapInstruction |-> swapIx,
          cleanupInstruction |-> cleanup,
          addressLookupTableAddresses |-> JArr(<<JStr(MintB)>>),
          computeUnitLimit |-> JNum(1400000),
          dynamicSlippageReport |-> JNull,
          otherInstructions |-> JArr(<<OtherJson>>),
          prioritizationFeeLamports |-> JNum(5000),
          prioritizationType |->
              JObj([computeBudget |-> JObj([estimatedMicroLamports |-> JNum(10),
                                            microLamports |-> JNum(10)])]),
          simulationError |-> simulationError,
          simulationSlot |-> JNull])

SwapResponseJson(setup, swapTx, cleanup) ==
    JObj([setupTransaction |-> setup, swapTransaction |-> swapTx,
          cleanupTransaction |-> cleanup])

ErrorTexts == {"insufficient liquidity", ""}

ErrorJson(msg) == JObj([error |-> JStr(msg)])

-----------------------------------------------------------------------------
(* SpecApi: maybe_jupiter_api_error applied to one body for one expected type *)

ApiTypes == {"Quote", "SwapInstructions", "SwapResponse"}

ApiBases ==
    { EmptyMap,
      QuoteJson(1, "ExactIn").o,
      SwapInstructionsJson(<<SetupJson>>, SwapJson, CleanupJson, JNull).o,
      SwapResponseJson(JNull, JStr("AgM="), JNull).o }

ApiErrorFields ==
    {JStr(m) : m \in ErrorTexts} \cup {JNull, JNum(7), JArr(<<JStr("x")>>)}

ApiBodies ==
    {JObj(o) : o \in ApiBases}
    \cup {JObj(With(o, "error", e)) : o \in ApiBases, e \in ApiErrorFields}
    \cup {JObj(Without(QuoteJson(1, "ExactIn").o, "routePlan"))}
    \cup {JArr(<<JStr(m)>>) : m \in ErrorTexts}
    \cup {JArr(<<>>), JArr(<<JStr("a"), JStr("b")>>), JArr(<<JNum(1)>>),
          JStr("error"), JNull, JNum(0)}

NoResult == [ok |-> FALSE, err |-> "none", msg |-> ""]

InitApi ==
    /\ apiBody \in ApiBodies
    /\ apiType \in ApiTypes
    /\ apiResult = NoResult
    /\ apiDone = FALSE

ApiCall ==
    /\ ~apiDone
    /\ apiResult' = maybe_jupiter_api_error(apiType, apiBody)
    /\ apiDone' = TRUE
    /\ UNCHANGED <<apiBody, apiType>>
    /\ UNCHANGED <<swcVars, rtVars, pipeVars, ixVars, urlVars>>

ApiIdle ==
    /\ apiBody = JNull /\ apiType = "Quote" /\ apiResult = NoResult /\ apiDone = TRUE

-----------------------------------------------------------------------------
(* The swap request and an HTTP exchange *)

\* struct SwapRequest as swap_with_config and swap_with_instructions build it
SwapRequest(quote_response, user_public_key, swap_config) ==
    [quote_response |-> quote_response,
     wrap_and_unwrap_sol |-> swap_config.wrap_and_unwrap_sol,
     user_public_key |-> user_public_key,
     dynamic_slippage |-> TRUE,
     dynamic_compute_unit_limit |-> TRUE]

\* SwapConfig::default()
DefaultSwapConfig ==
    [wrap_and_unwrap_sol |-> None, fee_account |-> None, token_ledger |-> None]

\* what send().await and json().await give: a transport failure, or a JSON body
TransportFailure == [failed |-> TRUE, json |-> JNull]
Body(j) == [failed |-> FALSE, json |-> j]

ReqwestErr == Err("Reqwest", "")

-----------------------------------------------------------------------------
(* SpecSwc: one call of swap_with_config *)

\* swap_with_config, from the response on (lines 345-361)
swap_with_config_result(response) ==
    IF response.failed THEN ReqwestErr
    ELSE LET swap_response == maybe_jupiter_api_error("SwapResponse", response.json)
         IN  IF ~swap_response.ok THEN swap_response
             ELSE LET r == swap_response.val
                      setup ==
                          IF r.setup_transaction.some
                          THEN (IF decode(r.setup_transaction.val).ok
                                THEN Some(decode(r.setup_transaction.val).val) ELSE None)
                          ELSE None
                      cleanup ==
                          IF r.cleanup_transaction.some
                          THEN (IF decode(r.cleanup_transaction.val).ok
                                THEN Some(decode(r.cleanup_transaction.val).val) ELSE None)
                          ELSE None
                      swapTx == decode(r.swap_transaction)
                  IN  IF ~swapTx.ok THEN swapTx
                      ELSE Ok([setup |-> setup, swap |-> swapTx.val, cleanup |-> cleanup])

SwcQuote == FromValue(TStruct("Quote"), QuoteJson(1, "ExactIn")).val

OptionalBlobs == {JNull, JStr("AQ=="), JStr("BAUG"), JStr(NotBase64), JStr("Bw==")}
SwapBlobs == {JStr("AgM="), JStr(NotBase64), JStr("Bw==")}

SwcResponses ==
    {Body(SwapResponseJson(su, sw, cl)) : su \in OptionalBlobs, sw \in SwapBlobs,
                                          cl \in OptionalBlobs}
    \cup {Body(JObj(Without(SwapResponseJson(JNull, sw, JNull).o, "setupTransaction"))) :
              sw \in SwapBlobs}
    \cup {Body(ErrorJson(m)) : m \in ErrorTexts}
    \cup {TransportFailure}

NoRequest == [sent |-> FALSE]

InitSwc ==
    /\ swcResponse \in SwcResponses
    /\ swcRequest = NoRequest
    /\ swcResult = NoResult
    /\ swcPc = "start"

\* swap_with_config up to the POST (lines 324-344)
SwcSend ==
    /\ swcPc = "start"
    /\ swcRequest' = [sent |-> TRUE, url |-> "https://quote-api.jup.ag/v6/swap",
                       body |-> SwapRequest(SwcQuote, MintA, DefaultSwapConfig)]
    /\ swcPc' = "sent"
    /\ UNCHANGED <<swcResponse, swcResult>>
    /\ UNCHANGED <<apiVars, rtVars, pipeVars, ixVars, urlVars>>

\* swap_with_config from the response to its return
SwcReturn ==
    /\ swcPc = "sent"
    /\ swcResult' = swap_with_config_result(swcResponse)
    /\ swcPc' = "done"
    /\ UNCHANGED <<swcResponse, swcRequest>>
    /\ UNCHANGED <<apiVars, rtVars, pipeVars, ixVars, urlVars>>

SwcIdle ==
    /\ swcResponse = TransportFailure /\ swcRequest = NoRequest
    /\ swcResult = NoResult /\ swcPc = "idle"

NextSwc == SwcSend \/ SwcReturn

-----------------------------------------------------------------------------
(* Text as a sequence of one-character strings, and the std / library      *)
(* parsers the pipeline applies to environment values                      *)

Whitespace == {" ", "\t", "\n", "\r"}
Digits == <<"0", "1", "2", "3", "4", "5", "6", "7", "8", "9">>
IsDigit(c) == \E i \in 1..Len(Digits) : Digits[i] = c
DigitVal(c) == (CHOOSE i \in 1..Len(Digits) : Digits[i] = c) - 1

RECURSIVE TrimStart(_)
TrimStart(cs) ==
    IF cs # <<>> /\ Head(cs) \in Whitespace THEN TrimStart(Tail(cs)) ELSE cs

RECURSIVE TrimEnd(_)
TrimEnd(cs) ==
    IF cs # <<>> /\ cs[Len(cs)] \in Whitespace
    THEN TrimEnd(SubSeq(cs, 1, Len(cs) - 1)) ELSE cs

\* str::trim
Trim(cs) == TrimEnd(TrimStart(cs))

\* str::starts_with(char)
StartsWith(cs, c) == cs # <<>> /\ Head(cs) = c

U64Limit == 1000000

\* str::parse::<u64>: an optional '+', then one or more digits and nothing else
RECURSIVE ParseDigits(_, _)
ParseDigits(cs, acc) ==
    IF cs = <<>> THEN Ok(acc)
    ELSE IF ~IsDigit(Head(cs)) THEN Err("ParseInt", "invalid digit")
    ELSE IF acc * 10 + DigitVal(Head(cs)) >= U64Limit THEN Err("ParseInt", "overflow")
    ELSE ParseDigits(Tail(cs), acc * 10 + DigitVal(Head(cs)))

ParseU64(cs) ==
    LET body == IF StartsWith(cs, "+") THEN Tail(cs) ELSE cs
    IN  IF body = <<>> THEN Err("ParseInt", "empty") ELSE ParseDigits(body, 0)

TextTrue == <<"t", "r", "u", "e">>
TextFalse == <<"f", "a", "l", "s", "e">>

\* str::parse::<bool>: exactly "true" or "false"
ParseBool(cs) ==
    IF cs = TextTrue THEN Ok(TRUE)
    ELSE IF cs = TextFalse THEN Ok(FALSE)
    ELSE Err("ParseBool", "")

\* serde_json::from_str::<Vec<u8>>: '[' u8 (',' u8)* ']' with whitespace between
\* tokens and after the array; a number is 0 or a digit run without a leading
\* zero, at most 255
JsonErr == Err("Json", "")

RECURSIVE JsonNumber(_, _)
JsonNumber(cs, acc) ==
    IF cs # <<>> /\ IsDigit(Head(cs))
    THEN JsonNumber(Tail(cs), IF acc > 255 THEN acc ELSE acc * 10 + DigitVal(Head(cs)))
    ELSE [val |-> acc, rest |-> cs]

JsonU8(cs) ==
    IF cs = <<>> \/ ~IsDigit(Head(cs)) THEN [ok |-> FALSE, val |-> 0, rest |-> cs]
    ELSE IF Head(cs) = "0"
         THEN [ok |-> Len(cs) < 2 \/ ~IsDigit(cs[2]), val |-> 0, rest |-> Tail(cs)]
    ELSE LET num == JsonNumber(cs, 0)
         IN  [ok |-> num.val <= 255 /\ ~StartsWith(num.rest, ".")
                     /\ ~StartsWith(num.rest, "e") /\ ~StartsWith(num.rest, "E"),
              val |-> num.val, rest |-> num.rest]

RECURSIVE JsonElements(_, _)
JsonElements(cs, acc) ==
    LET item == JsonU8(TrimStart(cs))
        after == TrimStart(item.rest)
    IN  IF ~item.ok THEN JsonErr
        ELSE IF StartsWith(after, "]")
             THEN (IF TrimStart(Tail(after)) = <<>> THEN Ok(Append(acc, item.val)) ELSE JsonErr)
        ELSE IF StartsWith(after, ",") THEN JsonElements(Tail(after), Append(acc, item.val))
        ELSE JsonErr

JsonByteArray(cs) ==
    LET open == TrimStart(cs)
    IN  IF ~StartsWith(open, "[") THEN JsonErr
        ELSE LET inner == TrimStart(Tail(open))
             IN  IF StartsWith(inner, "]")
                 THEN (IF TrimStart(Tail(inner)) = <<>> THEN Ok(<<>>) ELSE JsonErr)
                 ELSE JsonElements(inner, <<>>)

\* bs58::decode(..).into_vec(): every character is a digit of the alphabet;
\* the number is written big-endian in bytes, one zero byte per leading '1'
Base58Alphabet ==
    <<"1", "2", "3", "4", "5", "6", "7", "8", "9",
      "A", "B", "C", "D", "E", "F", "G", "H", "J", "K", "L", "M", "N",
      "P", "Q", "R", "S", "T", "U", "V", "W", "X", "Y", "Z",
      "a", "b", "c", "d", "e", "f", "g", "h", "i", "j", "k",
      "m", "n", "o", "p", "q", "r", "s", "t", "u", "v", "w", "x", "y", "z">>

Base58Index(c) == (CHOOSE i \in 1..Len(Base58Alphabet) : Base58Alphabet[i] = c) - 1
InBase58(c) == \E i \in 1..Len(Base58Alphabet) : Base58Alphabet[i] = c

\* bytes (little-endian) * 58 + carry
RECURSIVE MulAdd58(_, _)
MulAdd58(le, carry) ==
    IF le = <<>> THEN (IF carry = 0 THEN <<>> ELSE <<carry % 256>> \o MulAdd58(<<>>, carry \div 256))
    ELSE LET x == Head(le) * 58 + carry
         IN  <<x % 256>> \o MulAdd58(Tail(le), x \div 256)

RECURSIVE Base58Digits(_, _)
Base58Digits(cs, le) ==
    IF cs = <<>> THEN le ELSE Base58Digits(Tail(cs), MulAdd58(le, Base58Index(Head(cs))))

RECURSIVE LeadingOnes(_)
LeadingOnes(cs) == IF StartsWith(cs, "1") THEN 1 + LeadingOnes(Tail(cs)) ELSE 0

Reverse(q) == [i \in 1..Len(q) |-> q[Len(q) + 1 - i]]

bs58_decode(cs) ==
    IF \E i \in 1..Len(cs) : ~InBase58(cs[i]) THEN Err("Base58", "invalid character")
    ELSE LET zeros == LeadingOnes(cs)
             rest == SubSeq(cs, zeros + 1, Len(cs))
         IN  Ok([i \in 1..zeros |-> 0] \o Reverse(Base58Digits(rest, <<>>)))

\* Keypair::from_bytes accepts the byte strings that hold a secret key and its
\* public key
ValidKeyBytes == {<<1, 2, 3, 4>>}

Keypair_from_bytes(bytes) ==
    IF bytes \in ValidKeyBytes THEN Ok(bytes) ELSE Err("Keypair", "")

-----------------------------------------------------------------------------
(* The process-wide runtime: INIT, RUNTIME and get_runtime (lib.rs 46-57). *)
(* Caller 0 is the load hook, callers 1..MaxCallers are quick_swap calls.  *)

MaxCallers == 3
Callers == 0..MaxCallers

NoRuntime == [some |-> FALSE, val |-> 0]
SomeRuntime(id) == [some |-> TRUE, val |-> id]

\* a caller arrives at get_runtime
RtEnter(c) ==
    /\ rtPc[c] = "idle"
    /\ rtPc' = [rtPc EXCEPT ![c] = "call_once"]
    /\ UNCHANGED <<INIT, RUNTIME, rtSeen, rtBuilt>>

\* an initialisation that tests a flag without holding the others back
CallOnceEntry_unguarded(state) ==
    CASE state \in {"incomplete", "running"} -> [go |-> TRUE, init |-> "running", pc |-> "closure"]
      [] state = "complete" -> [go |-> TRUE, init |-> state, pc |-> "read"]
      [] state = "poisoned" -> [go |-> TRUE, init |-> state, pc |-> "panicked"]

\* what INIT.call_once does on entry, by the state of INIT: run the closure,
\* wait, skip it, or panic on a poisoned Once
CallOnceEntry(state) ==
    CASE state = "incomplete" -> [go |-> TRUE, init |-> "running", pc |-> "closure"]
      [] state = "running" -> [go |-> FALSE, init |-> state, pc |-> "call_once"]
      [] state = "complete" -> [go |-> TRUE, init |-> state, pc |-> "read"]
      [] state = "poisoned" -> [go |-> TRUE, init |-> state, pc |-> "panicked"]

RtCallOnce(c) ==
    /\ rtPc[c] = "call_once"
    /\ CallOnceEntry(INIT).go
    /\ INIT' = CallOnceEntry(INIT).init
    /\ rtPc' = [rtPc EXCEPT ![c] = CallOnceEntry(INIT).pc]
    /\ UNCHANGED <<RUNTIME, rtSeen, rtBuilt>>

\* the closure: Runtime::new().expect(..), then RUNTIME = Some(rt)
RtClosure(c) ==
    /\ rtPc[c] = "closure"
    /\ \E created \in BOOLEAN :
          IF created
          THEN /\ rtBuilt' = rtBuilt + 1
               /\ RUNTIME' = SomeRuntime(rtBuilt + 1)
               /\ INIT' = "complete"
               /\ rtPc' = [rtPc EXCEPT ![c] = "read"]
          ELSE /\ INIT' = "poisoned"
               /\ rtPc' = [rtPc EXCEPT ![c] = "panicked"]
               /\ UNCHANGED <<RUNTIME, rtBuilt>>
    /\ UNCHANGED rtSeen

\* RUNTIME.as_ref().unwrap()
RtRead(c) ==
    /\ rtPc[c] = "read"
    /\ IF RUNTIME.some
       THEN /\ rtSeen' = [rtSeen EXCEPT ![c] = RUNTIME.val]
            /\ rtPc' = [rtPc EXCEPT ![c] = "returned"]
       ELSE /\ rtPc' = [rtPc EXCEPT ![c] = "panicked"]
            /\ UNCHANGED rtSeen
    /\ UNCHANGED <<INIT, RUNTIME, rtBuilt>>

\* the library is being loaded and quick_swap calls arrive; nothing has run
InitRuntime ==
    /\ INIT = "incomplete"
    /\ RUNTIME = NoRuntime
    /\ rtPc = [c \in Callers |-> "idle"]
    /\ rtSeen = [c \in Callers |-> 0]
    /\ rtBuilt = 0

\* load has returned true: the runtime is in place before any quick_swap call
RuntimeLoaded ==
    /\ INIT = "complete"
    /\ RUNTIME = SomeRuntime(1)
    /\ rtPc = [c \in Callers |-> IF c = 0 THEN "returned" ELSE IF c = 1 THEN "idle" ELSE "absent"]
    /\ rtSeen = [c \in Callers |-> IF c = 0 THEN 1 ELSE 0]
    /\ rtBuilt = 1

GetRuntimeEnter == \E c \in Callers : RtEnter(c) /\ UNCHANGED <<apiVars, swcVars, pipeVars, ixVars, urlVars>>
GetRuntimeCallOnce == \E c \in Callers : RtCallOnce(c) /\ UNCHANGED <<apiVars, swcVars, pipeVars, ixVars, urlVars>>
GetRuntimeClosure == \E c \in Callers : RtClosure(c) /\ UNCHANGED <<apiVars, swcVars, pipeVars, ixVars, urlVars>>
GetRuntimeRead == \E c \in Callers : RtRead(c) /\ UNCHANGED <<apiVars, swcVars, pipeVars, ixVars, urlVars>>

NextRuntime == GetRuntimeEnter \/ GetRuntimeCallOnce \/ GetRuntimeClosure \/ GetRuntimeRead

-----------------------------------------------------------------------------
(* The pipeline: quick_swap and do_quick_swap (lib.rs 59-233), one action  *)
(* per stretch of code between two network awaits                          *)

\* an environment variable: unset, set to bytes that are not Unicode, or set to a text
Unset == [state |-> "unset", text |-> <<>>]
NotUnicode == [state |-> "not_unicode", text |-> <<>>]
Text(cs) == [state |-> "text", text |-> cs]
\* a variable whose text is used whole, never parsed
UnsetWord == [state |-> "unset", text |-> ""]
\* a variable the invocation has not come to yet
NotRead == [state |-> "not_read", text |-> ""]
Word(w) == [state |-> "text", text |-> w]

\* std::env::var
env_var(value) ==
    IF value.state = "text" THEN Ok(value.text) ELSE Err("VarError", value.state)

\* the #[error(..)] texts of jup_ag::Error
Display(e) ==
    CASE e.err = "Reqwest" -> "reqwest: " \o e.msg
      [] e.err = "ParsePubkey" -> "invalid pubkey in response data: " \o e.msg
      [] e.err = "Base64Decode" -> "base64: " \o e.msg
      [] e.err = "Bincode" -> "bincode: " \o e.msg
      [] e.err = "JupiterApi" -> "Jupiter API: " \o e.msg
      [] e.err = "SerdeJson" -> "serde_json: " \o e.msg

\* u64 and bool as format! writes them
DigitText == <<"0", "1", "2", "3", "4", "5", "6", "7", "8", "9">>
RECURSIVE FormatU64(_)
FormatU64(n) ==
    IF n < 10 THEN DigitText[n + 1] ELSE FormatU64(n \div 10) \o DigitText[(n % 10) + 1]
FormatBool(b) == IF b THEN "true" ELSE "false"

\* jup_ag::quote_url
quote_url(input_mint, output_mint, amount, only_direct_routes, slippage, swap_mode) ==
    "https://quote-api.jup.ag/v6/quote?inputMint=" \o input_mint
    \o "&outputMint=" \o output_mint
    \o "&amount=" \o amount
    \o "&onlyDirectRoutes=" \o FormatBool(only_direct_routes)
    \o "&swapMode=" \o swap_mode
    \o "&excludeDexes=Phoenix&restrictIntermediateTokens=true"
    \o (IF slippage.some THEN "&slippageBps=" \o FormatU64(slippage.val)
        ELSE "&autoSlippage=true&maxAutoSlippageBps=100")
    \o (IF slippage.some THEN "" ELSE "&autoSlippageCollisionUsdValue=1000")

\* Pubkey::default(), the all-zero address
DefaultPubkey == "11111111111111111111111111111111"

\* Quote::default()
QuoteDefault ==
    [in_amount |-> "", out_amount |-> "", input_mint |-> DefaultPubkey,
     output_mint |-> DefaultPubkey, slippage_bps |-> 0, price_impact_pct |-> "",
     route_plan |-> <<>>, other_amount_threshold |-> "", swap_mode |-> ""]

\* lines 97-117: the quote the pipeline goes on with
combined_quote(from_result, swap_mode) ==
    LET from_quote == IF from_result.ok THEN from_result.val ELSE QuoteDefault
        combined_route_plans == <<>> \o from_quote.route_plan
    IN  [input_mint |-> from_quote.input_mint,
         output_mint |-> from_quote.output_mint,
         in_amount |-> from_quote.in_amount,
         out_amount |-> from_quote.out_amount,
         route_plan |-> combined_route_plans,
         slippage_bps |-> from_quote.slippage_bps,
         price_impact_pct |-> from_quote.price_impact_pct,
         other_amount_threshold |-> from_quote.other_amount_threshold,
         swap_mode |-> swap_mode]

NoKeypair == [source |-> "none", bytes |-> <<>>]

\* a value the chosen parser rejects is handed to the other parser
resolve_keypair_fall_through(key_value) ==
    IF env_var(key_value).ok
    THEN LET key_string == env_var(key_value).val
             json == JsonByteArray(key_string)
             base58 == bs58_decode(Trim(key_string))
             key_bytes ==
                 IF StartsWith(key_string, "[")
                 THEN (IF json.ok THEN json
                       ELSE IF base58.ok THEN base58
                       ELSE Err("Key", "Failed to decode base58 private key: "))
                 ELSE (IF base58.ok THEN base58
                       ELSE IF json.ok THEN json
                       ELSE Err("Key", "Failed to parse JSON private key: "))
         IN  IF ~key_bytes.ok THEN key_bytes
             ELSE IF ~Keypair_from_bytes(key_bytes.val).ok
                  THEN Err("Key", "Invalid private key: ")
             ELSE Ok([source |-> "configured", bytes |-> key_bytes.val])
    ELSE Ok([source |-> "ephemeral", bytes |-> <<>>])

\* lines 125-153: the keypair, or the error the invocation returns
resolve_keypair(key_value) ==
    IF env_var(key_value).ok
    THEN LET key_string == env_var(key_value).val
             key_bytes ==
                 IF StartsWith(key_string, "[")
                 THEN (IF JsonByteArray(key_string).ok THEN JsonByteArray(key_string)
                       ELSE Err("Key", "Failed to parse JSON private key: "))
                 ELSE (IF bs58_decode(Trim(key_string)).ok THEN bs58_decode(Trim(key_string))
                       ELSE Err("Key", "Failed to decode base58 private key: "))
         IN  IF ~key_bytes.ok THEN key_bytes
             ELSE IF ~Keypair_from_bytes(key_bytes.val).ok
                  THEN Err("Key", "Invalid private key: ")
             ELSE Ok([source |-> "configured", bytes |-> key_bytes.val])
    ELSE Ok([source |-> "ephemeral", bytes |-> <<>>])

\* Keypair::pubkey
pubkey(signer) ==
    IF signer.source = "ephemeral" THEN "EphemeralPubkey" ELSE "ConfiguredPubkey"

\* an account whose address does not parse is left out of the instruction
into_instruction_skip_unparsed(self) ==
    LET program_id == ParsePubkey(self.program_id)
        parsed == SelectSeq(self.accounts, LAMBDA acc : ParsePubkey(acc.pubkey).ok)
        data == base64_decode(self.data)
    IN  IF ~program_id.ok THEN program_id
        ELSE IF ~data.ok THEN data
        ELSE Ok([program_id |-> program_id.val,
                 accounts |-> [i \in 1..Len(parsed) |->
                                  [pubkey |-> ParsePubkey(parsed[i].pubkey).val,
                                   is_signer |-> parsed[i].is_signer,
                                   is_writable |-> parsed[i].is_writable]],
                 data |-> data.val])

\* the two flags of every account written to each other's place
into_instruction_flags_exchanged(self) ==
    LET program_id == ParsePubkey(self.program_id)
        metas == [i \in 1..Len(self.accounts) |-> ParsePubkey(self.accounts[i].pubkey)]
        data == base64_decode(self.data)
    IN  IF ~program_id.ok THEN program_id
        ELSE IF \E i \in 1..Len(metas) : ~metas[i].ok
             THEN metas[CHOOSE i \in 1..Len(metas) :
                          ~metas[i].ok /\ \A k \in 1..(i - 1) : metas[k].ok]
        ELSE IF ~data.ok THEN data
        ELSE Ok([program_id |-> program_id.val,
                 accounts |-> [i \in 1..Len(metas) |->
                                  [pubkey |-> metas[i].val,
                                   is_signer |-> self.accounts[i].is_writable,
                                   is_writable |-> self.accounts[i].is_signer]],
                 data |-> data.val])

\* JupiterInstruction::into_instruction
into_instruction(self) ==
    LET program_id == ParsePubkey(self.program_id)
        metas == [i \in 1..Len(self.accounts) |-> ParsePubkey(self.accounts[i].pubkey)]
        data == base64_decode(self.data)
    IN  IF ~program_id.ok THEN program_id
        ELSE IF \E i \in 1..Len(metas) : ~metas[i].ok
             THEN metas[CHOOSE i \in 1..Len(metas) :
                          ~metas[i].ok /\ \A k \in 1..(i - 1) : metas[k].ok]
        ELSE IF ~data.ok THEN data
        ELSE Ok([program_id |-> program_id.val,
                 accounts |-> [i \in 1..Len(metas) |->
                                  [pubkey |-> metas[i].val,
                                   is_signer |-> self.accounts[i].is_signer,
                                   is_writable |-> self.accounts[i].is_writable]],
                 data |-> data.val])

\* jup_ag::swap_with_instructions, from the response on
swap_with_instructions_result(response) ==
    IF response.failed THEN ReqwestErr
    ELSE maybe_jupiter_api_error("SwapInstructions", response.json)

\* the loop of lines 163-167
RECURSIVE push_setup(_, _)
push_setup(setup_instructions, instructions) ==
    IF setup_instructions = <<>> THEN Ok(instructions)
    ELSE LET instruction == into_instruction(Head(setup_instructions))
         IN  IF ~instruction.ok
             THEN Err("Text", "Failed to parse setup instruction: " \o Display(instruction))
             ELSE push_setup(Tail(setup_instructions), Append(instructions, instruction.val))

\* a descriptor that does not convert is left out and the rest is kept
assemble_instructions_skip_failed(swap_response) ==
    LET converted(descriptors) ==
            LET kept == SelectSeq(descriptors, LAMBDA d : into_instruction(d).ok)
            IN  [i \in 1..Len(kept) |-> into_instruction(kept[i]).val]
    IN  Ok(converted(swap_response.setup_instructions)
           \o converted(<<swap_response.swap_instruction>>)
           \o (IF swap_response.cleanup_instruction.some
               THEN converted(<<swap_response.cleanup_instruction.val>>) ELSE <<>>))

\* the compute budget instructions of the response put in front of the list
assemble_instructions_with_budget(swap_response) ==
    LET budget == push_setup(swap_response.compute_budget_instructions, <<>>)
        setup == push_setup(swap_response.setup_instructions,
                            IF budget.ok THEN budget.val ELSE <<>>)
        swap_instruction == into_instruction(swap_response.swap_instruction)
        cleanup == into_instruction(swap_response.cleanup_instruction.val)
    IN  IF ~budget.ok THEN budget
        ELSE IF ~setup.ok THEN setup
        ELSE IF ~swap_instruction.ok
             THEN Err("Text", "Failed to parse swap instruction: " \o Display(swap_instruction))
        ELSE IF ~swap_response.cleanup_instruction.some
             THEN Ok(Append(setup.val, swap_instruction.val))
        ELSE IF ~cleanup.ok
             THEN Err("Text", "Failed to parse cleanup instruction: " \o Display(cleanup))
        ELSE Ok(Append(Append(setup.val, swap_instruction.val), cleanup.val))

\* the swap instruction pushed before the setup instructions
assemble_instructions_swap_first(swap_response) ==
    LET swap_instruction == into_instruction(swap_response.swap_instruction)
        setup == push_setup(swap_response.setup_instructions,
                            IF swap_instruction.ok THEN <<swap_instruction.val>> ELSE <<>>)
        cleanup == into_instruction(swap_response.cleanup_instruction.val)
    IN  IF ~swap_instruction.ok
        THEN Err("Text", "Failed to parse swap instruction: " \o Display(swap_instruction))
        ELSE IF ~setup.ok THEN setup
        ELSE IF ~swap_response.cleanup_instruction.some THEN Ok(setup.val)
        ELSE IF ~cleanup.ok
             THEN Err("Text", "Failed to parse cleanup instruction: " \o Display(cleanup))
        ELSE Ok(Append(setup.val, cleanup.val))

\* lines 159-179: the instruction list, or the error the invocation returns
assemble_instructions(swap_response) ==
    LET setup == push_setup(swap_response.setup_instructions, <<>>)
        swap_instruction == into_instruction(swap_response.swap_instruction)
        cleanup == into_instruction(swap_response.cleanup_instruction.val)
    IN  IF ~setup.ok THEN setup
        ELSE IF ~swap_instruction.ok
             THEN Err("Text", "Failed to parse swap instruction: " \o Display(swap_instruction))
        ELSE IF ~swap_response.cleanup_instruction.some
             THEN Ok(Append(setup.val, swap_instruction.val))
        ELSE IF ~cleanup.ok
             THEN Err("Text", "Failed to parse cleanup instruction: " \o Display(cleanup))
        ELSE Ok(Append(Append(setup.val, swap_instruction.val), cleanup.val))

\* the values the transaction settings are read as (lines 196-215); a text
\* that does not parse panics in unwrap()
skip_preflight_of(value) ==
    IF ~env_var(value).ok THEN Ok(TRUE) ELSE ParseBool(env_var(value).val)
max_retries_of(value) ==
    IF ~env_var(value).ok THEN Ok(2) ELSE ParseU64(env_var(value).val)
timeout_secs_of(value) ==
    IF ~env_var(value).ok THEN Ok(60) ELSE ParseU64(env_var(value).val)

\* lines 187-217
smart_config(instructions, signer, skip_preflight, max_retries, timeout_secs) ==
    [create_config |->
         [instructions |-> instructions, signers |-> <<signer>>, lookup_tables |-> None,
          fee_payer |-> None, priority_fee_cap |-> None],
     send_options |->
         [skip_preflight |-> skip_preflight, preflight_commitment |-> None,
          encoding |-> None, max_retries |-> Some(max_retries), min_context_slot |-> None],
     timeout |-> timeout_secs]

NoOutcome == [kind |-> "none", text |-> ""]
Success(text) == [kind |-> "ok", text |-> text]
Failure(text) == [kind |-> "err", text |-> text]
Panic == [kind |-> "panic", text |-> ""]

-----------------------------------------------------------------------------
(* What the caller, the environment and the remote services may supply *)

MaxHops == 1
Amount == 1000

FromMintTexts == {MintA, BadAddress}
ToMintTexts == {MintB, BadAddress}

SlippageValues == {Unset, Text(<<"+", "5", "0">>), Text(<<"a", "b", "c">>)}
DirectRouteValues == {Unset, Text(<<"y", "e", "s">>)}
SwapModeValues == {UnsetWord, Word("ExactOut")}
WrapValues == {Unset, Text(<<"1">>)}

QuoteResponses ==
    {Body(QuoteJson(n, "ExactIn")) : n \in 0..MaxHops}
    \cup {Body(QuoteJson(1, "ExactOut")),
          Body(ErrorJson("insufficient liquidity")),
          Body(JObj(Without(QuoteJson(1, "ExactIn").o, "routePlan"))),
          TransportFailure}

KeyJson == <<"[", "1", ",", "2", ",", "3", ",", "4", "]">>
KeyBase58 == <<"2", "V", "f", "U", "X">>

KeyValues ==
    {Unset, NotUnicode,
     Text(KeyJson \o <<"\n">>), Text(<<" ">> \o KeyJson),
     Text(<<"[", "1", ",", "2", ",", "3", ",", "4">>), Text(<<"[", "1", ",", "2", "]">>),
     Text(<<" ">> \o KeyBase58 \o <<"\n">>), Text(<<"0", "O", "I", "l">>)}

SwapInstructionResponses ==
    {Body(SwapInstructionsJson(<<>>, SwapJson, JNull, JNull)),
     Body(SwapInstructionsJson(<<SetupJson, SetupJson2>>, SwapJson, CleanupJson, JNull)),
     Body(SwapInstructionsJson(<<SetupJson2, SetupJson, SetupJson2>>, SwapJson, JNull, JNull)),
     Body(SwapInstructionsJson(<<SwapJson>>, SwapJson, CleanupJson, JNull)),
     Body(JObj(With(SwapInstructionsJson(<<SetupJson>>, SwapJson, CleanupJson, JNull).o,
                    "tokenLedgerInstruction", LedgerJson))),
     Body(SwapInstructionsJson(<<SetupJson, BadAccountJson>>, SwapJson, JNull, JNull)),
     Body(SwapInstructionsJson(<<SetupJson>>, SwapJson, JNull,
                               JStr("custom program error: 0x1771"))),
          Body(SwapInstructionsJson(<<SetupJson>>, BadProgramJson, JNull, JNull)),
          Body(SwapInstructionsJson(<<>>, SwapJson, BadDataJson, JNull)),
          Body(ErrorJson("insufficient liquidity")),
          TransportFailure}

HeliusKeyValues == {UnsetWord, Word("helius-api-key")}
SkipPreflightValues == {Unset, Text(<<"n", "o">>)}
MaxRetriesValues == {Unset, Text(<<"5">>), Text(<<"m", "a", "n", "y">>)}
TimeoutValues == {Unset, Text(<<"3", "0">>), Text(<<"s", "o", "o", "n">>)}

SubmitResults == {Ok("5VERv8NMvzbJMEkV8xnrLkEaWRtSz9CosKDYjCJjBRnb"), Err("Helius", "TransactionError")}

InitPipeline ==
    /\ pc = "start"
    /\ args \in [token_to : ToMintTexts, token_from : FromMintTexts, amount : {Amount},
                 key_env_var : {"PRIVATE_KEY"}]
    /\ outcome = NoOutcome
    /\ settings = [swap_mode |-> "", wrap_and_unwrap_sol |-> FALSE,
                   helius_api_key |-> NotRead]
    /\ quoteRequests = <<>>
    /\ fromResult = NoResult
    /\ keyValue = Unset
    /\ keypair = NoKeypair
    /\ ephemeralKeys = 0
    /\ swapRequests = <<>>
    /\ swapResult = NoResult
    /\ submissions = <<>>

PipelineIdle ==
    /\ pc = "idle"
    /\ args = [token_to |-> MintB, token_from |-> MintA, amount |-> Amount,
               key_env_var |-> "PRIVATE_KEY"]
    /\ outcome = NoOutcome
    /\ settings = [swap_mode |-> "", wrap_and_unwrap_sol |-> FALSE,
                   helius_api_key |-> NotRead]
    /\ quoteRequests = <<>>
    /\ fromResult = NoResult
    /\ keyValue = Unset
    /\ keypair = NoKeypair
    /\ ephemeralKeys = 0
    /\ swapRequests = <<>>
    /\ swapResult = NoResult
    /\ submissions = <<>>

\* quick_swap (lines 60-65) up to the call of get_runtime in do_quick_swap
QuickSwap ==
    /\ pc = "start"
    /\ IF ParsePubkey(args.token_from).ok /\ ParsePubkey(args.token_to).ok
       THEN /\ pc' = "get_runtime"
            /\ RtEnter(1)
            /\ UNCHANGED outcome
       ELSE /\ pc' = "done"
            /\ outcome' = Panic
            /\ UNCHANGED rtVars
    /\ UNCHANGED <<args, settings, quoteRequests, fromResult, keyValue, keypair,
                   ephemeralKeys, swapRequests, swapResult, submissions>>
    /\ UNCHANGED <<apiVars, swcVars, ixVars, urlVars>>

\* lines 69-95: the settings are read, the quote URL is built and requested
RequestQuote ==
    /\ pc = "get_runtime"
    /\ rtPc[1] = "returned"
    /\ \E slippageEnv \in SlippageValues, directEnv \in DirectRouteValues,
          modeEnv \in SwapModeValues, wrapEnv \in WrapValues :
          LET slippage_bps ==
                  IF env_var(slippageEnv).ok /\ ParseU64(env_var(slippageEnv).val).ok
                  THEN Some(ParseU64(env_var(slippageEnv).val).val) ELSE None
              only_direct_routes ==
                  IF env_var(directEnv).ok /\ ParseBool(env_var(directEnv).val).ok
                  THEN ParseBool(env_var(directEnv).val).val ELSE TRUE
              swap_mode ==
                  IF env_var(modeEnv).ok THEN env_var(modeEnv).val ELSE "ExactIn"
              wrap_and_unwrap_sol ==
                  IF env_var(wrapEnv).ok /\ ParseBool(env_var(wrapEnv).val).ok
                  THEN ParseBool(env_var(wrapEnv).val).val ELSE FALSE
          IN  /\ settings' = [settings EXCEPT !.swap_mode = swap_mode,
                                              !.wrap_and_unwrap_sol = wrap_and_unwrap_sol]
              /\ quoteRequests' =
                     Append(quoteRequests,
                            quote_url(args.token_from, args.token_to, FormatU64(args.amount),
                                      only_direct_routes, slippage_bps, swap_mode))
    /\ pc' = "quote"
    /\ UNCHANGED <<args, outcome, fromResult, keyValue, keypair, ephemeralKeys,
                   swapRequests, swapResult, submissions>>
    /\ UNCHANGED <<apiVars, swcVars, rtVars, ixVars, urlVars>>

\* lines 95-157: the quote response arrives, the quote is carried over, the key
\* is resolved and the swap-instructions request is sent
QuoteReturns ==
    /\ pc = "quote"
    /\ \E response \in QuoteResponses, key \in KeyValues :
          IF response.failed
          THEN /\ outcome' = Panic
               /\ pc' = "done"
               /\ UNCHANGED <<fromResult, keyValue, keypair, ephemeralKeys, swapRequests>>
          ELSE LET from_result == maybe_jupiter_api_error("Quote", response.json)
                   quote == combined_quote(from_result, settings.swap_mode)
                   swap_config == [wrap_and_unwrap_sol |-> Some(settings.wrap_and_unwrap_sol),
                                   fee_account |-> None, token_ledger |-> None]
                   resolved == resolve_keypair(key)
               IN  /\ fromResult' = from_result
                   /\ keyValue' = key
                   /\ IF resolved.ok
                      THEN /\ keypair' = resolved.val
                           /\ ephemeralKeys' =
                                  ephemeralKeys + (IF resolved.val.source = "ephemeral" THEN 1 ELSE 0)
                           /\ swapRequests' =
                                  Append(swapRequests,
                                         SwapRequest(quote, pubkey(resolved.val), swap_config))
                           /\ pc' = "swap"
                           /\ UNCHANGED outcome
                      ELSE /\ outcome' = Failure(resolved.msg)
                           /\ pc' = "done"
                           /\ UNCHANGED <<keypair, ephemeralKeys, swapRequests>>
    /\ UNCHANGED <<args, settings, quoteRequests, swapResult, submissions>>
    /\ UNCHANGED <<apiVars, swcVars, rtVars, ixVars, urlVars>>

\* a swap-instructions request that failed is sent again
SwapReturns_resend ==
    /\ pc = "swap"
    /\ \E response \in SwapInstructionResponses, heliusEnv \in HeliusKeyValues :
          LET swap_response == swap_with_instructions_result(response)
          IN  /\ swapResult' = swap_response
              /\ settings' = [settings EXCEPT !.helius_api_key = heliusEnv]
              /\ IF ~swap_response.ok
                 THEN /\ swapRequests' = Append(swapRequests, swapRequests[Len(swapRequests)])
                      /\ pc' = "swap"
                      /\ UNCHANGED outcome
                 ELSE /\ outcome' = Failure("Failed to parse swap instruction: ")
                      /\ pc' = "done"
                      /\ UNCHANGED swapRequests
    /\ UNCHANGED <<args, quoteRequests, fromResult, keyValue, keypair, ephemeralKeys,
                   submissions>>
    /\ UNCHANGED <<apiVars, swcVars, rtVars, ixVars, urlVars>>

\* lines 155-220: the swap-instructions response arrives, the instructions are
\* assembled and handed to send_smart_transaction
SwapReturns ==
    /\ pc = "swap"
    /\ \E response \in SwapInstructionResponses, heliusEnv \in HeliusKeyValues,
          skipEnv \in SkipPreflightValues, retriesEnv \in MaxRetriesValues,
          timeoutEnv \in TimeoutValues :
          LET swap_response == swap_with_instructions_result(response)
              instructions == assemble_instructions(swap_response.val)
              skip_preflight == skip_preflight_of(skipEnv)
              max_retries == max_retries_of(retriesEnv)
              timeout_secs == timeout_secs_of(timeoutEnv)
          IN  /\ swapResult' = swap_response
              /\ settings' = [settings EXCEPT !.helius_api_key = heliusEnv]
              /\ IF ~swap_response.ok
                 THEN /\ outcome' = Failure("Failed to get swap instructions: "
                                            \o Display(swap_response))
                      /\ pc' = "done"
                      /\ UNCHANGED submissions
                 ELSE IF ~instructions.ok
                 THEN /\ outcome' = Failure(instructions.msg)
                      /\ pc' = "done"
                      /\ UNCHANGED submissions
                 ELSE IF ~env_var(heliusEnv).ok
                 THEN /\ outcome' = Failure("HELIUS_API_KEY environment variable not set")
                      /\ pc' = "done"
                      /\ UNCHANGED submissions
                 ELSE IF ~skip_preflight.ok \/ ~max_retries.ok \/ ~timeout_secs.ok
                 THEN /\ outcome' = Panic
                      /\ pc' = "done"
                      /\ UNCHANGED submissions
                 ELSE /\ submissions' =
                             Append(submissions,
                                    smart_config(instructions.val, keypair, skip_preflight.val,
                                                 max_retries.val, timeout_secs.val))
                      /\ pc' = "submit"
                      /\ UNCHANGED outcome
    /\ UNCHANGED <<args, quoteRequests, fromResult, keyValue, keypair,
                   ephemeralKeys, swapRequests>>
    /\ UNCHANGED <<apiVars, swcVars, rtVars, ixVars, urlVars>>

\* lines 220-231: send_smart_transaction returns
SubmitReturns ==
    /\ pc = "submit"
    /\ \E result \in SubmitResults :
          outcome' = IF result.ok THEN Success(result.val) ELSE Failure(result.msg)
    /\ pc' = "done"
    /\ UNCHANGED <<args, settings, quoteRequests, fromResult, keyValue, keypair,
                   ephemeralKeys, swapRequests, swapResult, submissions>>
    /\ UNCHANGED <<apiVars, swcVars, rtVars, ixVars, urlVars>>

PipelineGetRuntime ==
    /\ pc = "get_runtime"
    /\ RtCallOnce(1) \/ RtRead(1)
    /\ UNCHANGED <<apiVars, swcVars, pipeVars, ixVars, urlVars>>

Next ==
    \/ QuickSwap
    \/ PipelineGetRuntime
    \/ RequestQuote
    \/ QuoteReturns
    \/ SwapReturns
    \/ SubmitReturns

-----------------------------------------------------------------------------
(* into_instruction applied to one descriptor *)

MaxAccounts == 2

IxPrograms == {ProgSwap, BadAddress}
IxAccounts == [pubkey : {MintA, MintB, BadAddress}, is_signer : BOOLEAN, is_writable : BOOLEAN]
IxPayloads == {"AgM=", NotBase64}
IxDescriptors ==
    [program_id : IxPrograms,
     accounts : UNION {[1..n -> IxAccounts] : n \in 0..MaxAccounts},
     data : IxPayloads]

InitIx ==
    /\ ixSelf \in IxDescriptors
    /\ ixResult = NoResult
    /\ ixDone = FALSE

IxCall ==
    /\ ~ixDone
    /\ ixResult' = into_instruction(ixSelf)
    /\ ixDone' = TRUE
    /\ UNCHANGED ixSelf
    /\ UNCHANGED <<apiVars, swcVars, rtVars, pipeVars, urlVars>>

IxIdle ==
    /\ ixSelf = [program_id |-> ProgSwap, accounts |-> <<>>, data |-> "AgM="]
    /\ ixResult = NoResult
    /\ ixDone = TRUE

NextIx == IxCall


-----------------------------------------------------------------------------
(* quote_url applied to one argument list *)

UrlAmounts == {"1000", "0"}
UrlSlippages == {None, Some(0), Some(50)}
UrlSwapModes == {"ExactIn", "ExactOut", "ExactIn&slippageBps=5", "ExactOut&autoSlippage=true"}
UrlArgLists ==
    [input_mint : {MintA, MintB}, output_mint : {MintA, MintB}, amount : UrlAmounts,
     only_direct_routes : BOOLEAN, slippage : UrlSlippages, swap_mode : UrlSwapModes]

InitUrl ==
    /\ urlArgs \in UrlArgLists
    /\ urlResult = ""
    /\ urlDone = FALSE

UrlCall ==
    /\ ~urlDone
    /\ urlResult' = quote_url(urlArgs.input_mint, urlArgs.output_mint, urlArgs.amount,
                              urlArgs.only_direct_routes, urlArgs.slippage, urlArgs.swap_mode)
    /\ urlDone' = TRUE
    /\ UNCHANGED urlArgs
    /\ UNCHANGED <<apiVars, swcVars, rtVars, pipeVars, ixVars>>

UrlIdle ==
    /\ urlArgs = [input_mint |-> MintA, output_mint |-> MintB, amount |-> "0",
                  only_direct_routes |-> TRUE, slippage |-> None, swap_mode |-> "ExactIn"]
    /\ urlResult = ""
    /\ urlDone = TRUE

NextUrl == UrlCall

UrlInit == InitUrl /\ ApiIdle /\ SwcIdle /\ RuntimeLoaded /\ PipelineIdle /\ IxIdle

SpecUrl == UrlInit /\ [][NextUrl]_vars

IxInit == InitIx /\ ApiIdle /\ SwcIdle /\ RuntimeLoaded /\ PipelineIdle /\ UrlIdle

SpecIx == IxInit /\ [][NextIx]_vars

-----------------------------------------------------------------------------
(* The specifications: each runs one part and holds the others still *)

Init == InitPipeline /\ RuntimeLoaded /\ ApiIdle /\ SwcIdle /\ IxIdle /\ UrlIdle

Spec == Init /\ [][Next]_vars

RuntimeInit == InitRuntime /\ ApiIdle /\ SwcIdle /\ PipelineIdle /\ IxIdle /\ UrlIdle

SpecRuntime == RuntimeInit /\ [][NextRuntime]_vars

SwcInit == InitSwc /\ ApiIdle /\ RuntimeLoaded /\ PipelineIdle /\ IxIdle /\ UrlIdle

SpecSwc == SwcInit /\ [][NextSwc]_vars

NextApi == ApiCall

ApiInit == InitApi /\ SwcIdle /\ RuntimeLoaded /\ PipelineIdle /\ IxIdle /\ UrlIdle

SpecApi == ApiInit /\ [][NextApi]_vars

-----------------------------------------------------------------------------
(* Claims *)

\* C1: a swap-instructions response that reports a simulation error
\* (simulationError non-null) ends the invocation in an error, and
\* send_smart_transaction is never called in that invocation.
C1_SimulationGate ==
    (swapResult.ok /\ swapResult.val.simulation_error.some) =>
        /\ submissions = <<>>
        /\ outcome.kind # "ok"

\* C2: for a body that is a JSON object with a string "error" field,
\* maybe_jupiter_api_error returns Error::JupiterApi carrying exactly that
\* text, whatever the expected type, and never a serde_json failure.
C2_ApiErrorSurfaced ==
    (/\ apiDone
     /\ apiBody.t = "obj"
     /\ "error" \in DOMAIN apiBody.o
     /\ apiBody.o["error"].t = "str") =>
        /\ ~apiResult.ok
        /\ apiResult.err = "JupiterApi"
        /\ apiResult.msg = apiBody.o["error"].s

\* the error field sits beside every field of the expected Quote
C2_Witness ==
    /\ apiDone
    /\ apiType = "Quote"
    /\ apiBody.t = "obj"
    /\ DOMAIN QuoteJson(1, "ExactIn").o \subseteq DOMAIN apiBody.o
    /\ "error" \in DOMAIN apiBody.o
    /\ apiBody.o["error"] = JStr("insufficient liquidity")
    /\ ~apiResult.ok
    /\ apiResult.msg = "insufficient liquidity"

\* C3: when the quote step answers with an error body, the invocation ends
\* there with an error: no swap-instructions request is sent, no key is
\* resolved and nothing is submitted.
C3_QuoteFailureStops ==
    (~fromResult.ok /\ fromResult.err = "JupiterApi") =>
        /\ pc = "done" /\ outcome.kind = "err"
        /\ swapRequests = <<>>
        /\ keypair = NoKeypair
        /\ submissions = <<>>

\* the setupTransaction / cleanupTransaction field of the response swcResponse
\* as swap_with_config reads it
SwcBlob(key) ==
    IF key \in DOMAIN swcResponse.json.o THEN swcResponse.json.o[key] ELSE JNull

SwcDecoded ==
    /\ swcPc = "done"
    /\ ~swcResponse.failed
    /\ FromValue(TStruct("SwapResponse"), swcResponse.json).ok
    /\ ~FromValue(TStruct("ErrorResponse"), swcResponse.json).ok

\* C4: in swap_with_config an absent setup or cleanup blob gives an absent
\* transaction in the returned Swap and is no error, and a blob that is
\* present but does not decode makes the call fail with a decode error.
C4_OptionalBlobs ==
    SwcDecoded =>
        \A slot \in {<<"setupTransaction", "setup">>, <<"cleanupTransaction", "cleanup">>} :
            /\ (SwcBlob(slot[1]).t = "null" /\ swcResult.ok) => ~swcResult.val[slot[2]].some
            /\ (SwcBlob(slot[1]).t = "str" /\ ~decode(SwcBlob(slot[1]).s).ok) =>
                   (~swcResult.ok /\ swcResult.err \in {"Base64Decode", "Bincode"})

\* the key step has run
KeyStepRan == fromResult # NoResult

\* C5: key resolution has three outcomes: a configured value that gives no
\* keypair fails the invocation with a key error, with no ephemeral key and no
\* swap request or submission; an ephemeral key is generated only when no
\* value is configured at all; a configured valid value gives that key.
C5_KeyOutcomes ==
    KeyStepRan =>
        /\ (keypair.source = "ephemeral" \/ ephemeralKeys > 0) => keyValue.state = "unset"
        /\ keyValue.state = "unset" =>
               (keypair.source = "ephemeral" /\ ephemeralKeys = 1 /\ swapRequests # <<>>)
        /\ (keyValue.state = "not_unicode"
            \/ (keyValue.state = "text" /\ ~resolve_keypair(keyValue).ok)) =>
               /\ pc = "done" /\ outcome.kind = "err"
               /\ swapRequests = <<>> /\ submissions = <<>>
        /\ (keyValue.state = "text" /\ resolve_keypair(keyValue).ok) =>
               (keypair.source = "configured" /\ ephemeralKeys = 0)

\* C6: the instruction list handed to send_smart_transaction is the converted
\* setup instructions in the order of setupInstructions, none dropped, merged
\* or moved, then the converted swap instruction once, then the converted
\* cleanup instruction if there is one.
C6_InstructionOrder ==
    \A k \in 1..Len(submissions) :
        LET list == submissions[k].create_config.instructions
            response == swapResult.val
            n == Len(response.setup_instructions)
        IN  /\ swapResult.ok
            /\ Len(list) = n + 1 + (IF response.cleanup_instruction.some THEN 1 ELSE 0)
            /\ \A i \in 1..n : list[i] = into_instruction(response.setup_instructions[i]).val
            /\ list[n + 1] = into_instruction(response.swap_instruction).val
            /\ response.cleanup_instruction.some =>
                   list[n + 2] = into_instruction(response.cleanup_instruction.val).val

\* three setup instructions with a repeated one, or two and a cleanup
C6_Witness ==
    /\ submissions # <<>>
    /\ Len(swapResult.val.setup_instructions) >= 2
    /\ swapResult.val.cleanup_instruction.some
    /\ swapResult.val.setup_instructions[1] # swapResult.val.setup_instructions[2]
    /\ Len(submissions[1].create_config.instructions) = 4

\* C7: the quote in the swap request equals, field for field, the quote the
\* quote step returned.
C7_QuoteForwarded ==
    (fromResult.ok /\ swapRequests # <<>>) =>
        \A k \in 1..Len(swapRequests) : swapRequests[k].quote_response = fromResult.val

\* C8: every swap-instructions request carries a quote with a non-empty
\* route_plan.
C8_RoutePlanNonEmpty ==
    \A k \in 1..Len(swapRequests) : swapRequests[k].quote_response.route_plan # <<>>

\* C9: every invocation of quick_swap ends with a success string or with an
\* error string, and in no other way.
C9_TwoOutcomes ==
    /\ outcome.kind \in {"none", "ok", "err"}
    /\ pc = "done" => outcome.kind \in {"ok", "err"}

\* C10: the runtime is constructed at most once, a caller of get_runtime
\* returns only once it is constructed and sees that one runtime, and RUNTIME,
\* once set, is never replaced or cleared.
C10_RuntimeOnce ==
    /\ [](/\ rtBuilt <= 1
          /\ \A c \in Callers :
                rtPc[c] = "returned" =>
                    /\ rtBuilt = 1
                    /\ INIT = "complete"
                    /\ RUNTIME = SomeRuntime(1)
                    /\ rtSeen[c] = 1)
    /\ [][RUNTIME.some => RUNTIME' = RUNTIME]_vars

\* the load hook and two quick_swap calls have returned, all with the runtime
\* one of the quick_swap calls constructed
C10_Witness ==
    /\ rtPc[0] = "returned" /\ rtPc[1] = "returned" /\ rtPc[2] = "returned"
    /\ rtSeen[0] = 1 /\ rtSeen[1] = 1 /\ rtSeen[2] = 1
    /\ rtBuilt = 1

\* the address texts of the descriptor ixSelf, and what the library parsers
\* make of them and of its payload
IxAddresses ==
    {ixSelf.program_id} \cup {ixSelf.accounts[i].pubkey : i \in 1..Len(ixSelf.accounts)}
IxAddressesValid == \A a \in IxAddresses : a \in ValidPubkeys
IxPayloadValid == ixSelf.data \in DOMAIN Base64Table

\* C12: into_instruction succeeds exactly when the program address and every
\* account address parse and the payload is valid base64; an invalid address
\* makes it fail with Error::ParsePubkey, an invalid payload (the addresses
\* being valid) with Error::Base64Decode, and a failure carries an error and
\* no instruction, whole or partial.
C12_IntoInstructionFails ==
    ixDone =>
        /\ ixResult.ok <=> (IxAddressesValid /\ IxPayloadValid)
        /\ ~IxAddressesValid => (~ixResult.ok /\ ixResult.err = "ParsePubkey")
        /\ (IxAddressesValid /\ ~IxPayloadValid) =>
               (~ixResult.ok /\ ixResult.err = "Base64Decode")
        /\ ~ixResult.ok => DOMAIN ixResult = {"ok", "err", "msg"}

\* a valid first account, an invalid second one and a valid payload
C12_Witness ==
    /\ ixDone
    /\ ixSelf.program_id \in ValidPubkeys
    /\ Len(ixSelf.accounts) = 2
    /\ ixSelf.accounts[1].pubkey \in ValidPubkeys
    /\ ixSelf.accounts[2].pubkey = BadAddress
    /\ IxPayloadValid
    /\ ~ixResult.ok
    /\ ixResult.err = "ParsePubkey"

\* the query of url has a parameter called name: name= stands right after
\* the ? or after an &
HasParam(url, name) ==
    \E i \in 1..Len(url) :
        /\ SubSeq(url, i, i) \in {"?", "&"}
        /\ i + Len(name) + 1 <= Len(url)
        /\ SubSeq(url, i + 1, i + Len(name) + 1) = name \o "="

\* the query of url has the parameter name with exactly the value value
ParamIs(url, name, value) ==
    LET piece == name \o "=" \o value
    IN  \E i \in 1..Len(url) :
            /\ SubSeq(url, i, i) \in {"?", "&"}
            /\ i + Len(piece) <= Len(url)
            /\ SubSeq(url, i + 1, i + Len(piece)) = piece
            /\ (i + Len(piece) = Len(url)
                \/ SubSeq(url, i + Len(piece) + 1, i + Len(piece) + 1) = "&")

\* C13: the URL quote_url returns has the parameter slippageBps=<value> and no
\* auto-slippage parameter when the slippage argument is present, and has
\* autoSlippage=true with maxAutoSlippageBps and no slippageBps parameter when
\* it is absent, for all arguments.
C13_SlippageForm ==
    urlDone =>
        IF urlArgs.slippage.some
        THEN /\ ParamIs(urlResult, "slippageBps", FormatU64(urlArgs.slippage.val))
             /\ ~HasParam(urlResult, "autoSlippage")
             /\ ~HasParam(urlResult, "maxAutoSlippageBps")
             /\ ~HasParam(urlResult, "autoSlippageCollisionUsdValue")
        ELSE /\ ParamIs(urlResult, "autoSlippage", "true")
             /\ HasParam(urlResult, "maxAutoSlippageBps")
             /\ ~HasParam(urlResult, "slippageBps")

\* C15: in one invocation at most one quote request and at most one
\* swap-instructions request is sent, whatever the two calls return; a request
\* that failed is not sent again.
C15_RequestsOnce ==
    /\ Len(quoteRequests) <= 1
    /\ Len(swapRequests) <= 1
    /\ Len(swapRequests) <= Len(quoteRequests)

\* the quote request was answered by an error body and the swap-instructions
\* request failed, and the invocation is over with one request of each kind
C15_Witness ==
    /\ pc = "done"
    /\ ~fromResult.ok /\ fromResult.err = "JupiterApi"
    /\ ~swapResult.ok /\ swapResult.err \in {"JupiterApi", "Reqwest"}
    /\ Len(quoteRequests) = 1
    /\ Len(swapRequests) = 1

\* C16: the parser of a configured key text is chosen by its first character
\* alone. A text starting with [ is parsed as a JSON byte array and as
\* nothing else: if that fails the invocation ends with the JSON error. Any
\* other text, one with whitespace before a [ included, is trimmed and parsed
\* as base58 and as nothing else: if that fails the invocation ends with the
\* base58 error. The key bytes are those of the chosen parser.
C16_ParserByFirstChar ==
    (KeyStepRan /\ keyValue.state = "text") =>
        LET json == JsonByteArray(keyValue.text)
            base58 == bs58_decode(Trim(keyValue.text))
        IN  IF StartsWith(keyValue.text, "[")
            THEN /\ ~json.ok =>
                       /\ pc = "done"
                       /\ outcome = Failure("Failed to parse JSON private key: ")
                       /\ keypair = NoKeypair
                 /\ (json.ok /\ keypair # NoKeypair) => keypair.bytes = json.val
            ELSE /\ ~base58.ok =>
                       /\ pc = "done"
                       /\ outcome = Failure("Failed to decode base58 private key: ")
                       /\ keypair = NoKeypair
                 /\ (base58.ok /\ keypair # NoKeypair) => keypair.bytes = base58.val

\* a valid JSON key array behind one blank: base58 is tried, fails, and the
\* JSON parser, which would have accepted the text, is not tried
C16_Witness ==
    /\ KeyStepRan
    /\ keyValue.state = "text"
    /\ ~StartsWith(keyValue.text, "[")
    /\ StartsWith(Trim(keyValue.text), "[")
    /\ JsonByteArray(keyValue.text).ok
    /\ Keypair_from_bytes(JsonByteArray(keyValue.text).val).ok
    /\ pc = "done"
    /\ outcome = Failure("Failed to decode base58 private key: ")

\* the setup, swap and cleanup descriptors of the response swapResult
SwapDescriptors ==
    swapResult.val.setup_instructions \o <<swapResult.val.swap_instruction>>
    \o (IF swapResult.val.cleanup_instruction.some
        THEN <<swapResult.val.cleanup_instruction.val>> ELSE <<>>)

\* the swap-instructions step has run
SwapStepRan == swapResult # NoResult

\* C17: when the swap-instructions request fails or is answered by an error
\* body, when one of the setup, swap or cleanup descriptors does not convert,
\* or when HELIUS_API_KEY is not set, the invocation ends with an error and
\* send_smart_transaction is not called; a list that lacks one of the
\* descriptors is never submitted.
C17_AllOrNothing ==
    SwapStepRan =>
        /\ (\/ ~swapResult.ok
            \/ (swapResult.ok /\ \E i \in 1..Len(SwapDescriptors) :
                                     ~into_instruction(SwapDescriptors[i]).ok)
            \/ settings.helius_api_key.state = "unset") =>
               /\ pc = "done"
               /\ outcome.kind = "err"
               /\ submissions = <<>>
        /\ \A k \in 1..Len(submissions) :
               Len(submissions[k].create_config.instructions) = Len(SwapDescriptors)

\* the first setup descriptor converts and the second does not, with
\* HELIUS_API_KEY set: nothing is submitted
C17_Witness ==
    /\ pc = "done"
    /\ swapResult.ok
    /\ Len(swapResult.val.setup_instructions) = 2
    /\ into_instruction(swapResult.val.setup_instructions[1]).ok
    /\ ~into_instruction(swapResult.val.setup_instructions[2]).ok
    /\ into_instruction(swapResult.val.swap_instruction).ok
    /\ settings.helius_api_key.state = "text"
    /\ outcome.kind = "err"
    /\ submissions = <<>>

\* the instructions the response swapResult carries outside its setup, swap
\* and cleanup fields, converted
OtherConverted ==
    LET others == swapResult.val.compute_budget_instructions
                  \o swapResult.val.other_instructions
                  \o (IF swapResult.val.token_ledger_instruction.some
                      THEN <<swapResult.val.token_ledger_instruction.val>> ELSE <<>>)
    IN  {into_instruction(others[i]).val :
            i \in {j \in 1..Len(others) : into_instruction(others[j]).ok}}

\* C18: the list handed to send_smart_transaction has
\* |setupInstructions| + 1 + (1 if there is a cleanup instruction) entries,
\* every entry is a converted setup, swap or cleanup descriptor, none is an
\* instruction of computeBudgetInstructions, tokenLedgerInstruction or
\* otherInstructions, and no address lookup table is passed.
C18_OnlySwapInstructions ==
    \A k \in 1..Len(submissions) :
        LET list == submissions[k].create_config.instructions
        IN  /\ swapResult.ok
            /\ Len(list) = Len(swapResult.val.setup_instructions) + 1
                            + (IF swapResult.val.cleanup_instruction.some THEN 1 ELSE 0)
            /\ \A i \in 1..Len(list) :
                   /\ list[i] \in {into_instruction(SwapDescriptors[j]).val :
                                       j \in 1..Len(SwapDescriptors)}
                   /\ list[i] \notin OtherConverted
            /\ submissions[k].create_config.lookup_tables = None

\* a submission for a response that carries compute budget instructions,
\* other instructions and a lookup table address
C18_Witness ==
    /\ submissions # <<>>
    /\ swapResult.ok
    /\ swapResult.val.compute_budget_instructions # <<>>
    /\ swapResult.val.other_instructions # <<>>
    /\ swapResult.val.address_lookup_table_addresses # <<>>
    /\ swapResult.val.token_ledger_instruction.some
    /\ Cardinality(OtherConverted) = 3
    /\ Len(submissions[1].create_config.instructions) = 3
    /\ submissions[1].create_config.lookup_tables = None

\* the body apiBody has a field error whose value is a string
HasStringError ==
    /\ apiBody.t = "obj"
    /\ "error" \in DOMAIN apiBody.o
    /\ apiBody.o["error"].t = "str"

\* C19: maybe_jupiter_api_error probes the error shape first. A body with a
\* string error field that also has every field of the expected structure
\* gives Error::JupiterApi and not the parsed value; a body without a string
\* error field (none, or one that is no string) is decoded as the expected
\* structure and gives the parsed value or a serde_json error, never
\* Error::JupiterApi.
C19_ErrorShapeFirst ==
    apiDone =>
        /\ (HasStringError /\ FromValue(TStruct(apiType), apiBody).ok) =>
               (~apiResult.ok /\ apiResult.err = "JupiterApi")
        /\ ~HasStringError =>
               /\ apiResult = FromValue(TStruct(apiType), apiBody)
               /\ apiResult.ok \/ apiResult.err = "SerdeJson"

\* C20: an instruction into_instruction returns has as many accounts as the
\* descriptor, the i-th being the i-th address of the descriptor with its
\* is_signer and is_writable flags unchanged.
C20_AccountsPreserved ==
    (ixDone /\ ixResult.ok) =>
        /\ Len(ixResult.val.accounts) = Len(ixSelf.accounts)
        /\ \A i \in 1..Len(ixSelf.accounts) :
               /\ ixResult.val.accounts[i].pubkey = ixSelf.accounts[i].pubkey
               /\ ixResult.val.accounts[i].is_signer = ixSelf.accounts[i].is_signer
               /\ ixResult.val.accounts[i].is_writable = ixSelf.accounts[i].is_writable

\* two different accounts whose flags differ from each other and between them
C20_Witness ==
    /\ ixDone
    /\ ixResult.ok
    /\ Len(ixResult.val.accounts) = 2
    /\ ixSelf.accounts[1].pubkey # ixSelf.accounts[2].pubkey
    /\ ixSelf.accounts[1].is_signer /\ ~ixSelf.accounts[1].is_writable
    /\ ~ixSelf.accounts[2].is_signer /\ ixSelf.accounts[2].is_writable

====
